---- MODULE Spec2Model ----
(***************************************************************************)
(* Model of apps/desktop/src-tauri/src/lib.rs: the desktop host's          *)
(* bootstrap (run), its one command (app_version) and the command bridge   *)
(* that generate_handler!/invoke_handler install between the web view and  *)
(* the host.                                                               *)
(*                                                                         *)
(* Strings are sequences of one-character strings, so that formatting and  *)
(* parsing a version are computed and not assumed.                         *)
(***************************************************************************)
EXTENDS Integers, Sequences, FiniteSets

\* ---------------------------------------------------------------- bounds
\* Invocation requests the UI issues in one run of the process.
MaxReq == 2
\* Longest build-configured version string.
MaxVerLen == 6

\* Characters a build-configured version string is drawn from.
VersionChars == {"0", "1", "."}

\* Command names the UI may ask for: the registered one and an unknown one.
RequestNames == {"app_version", "does_not_exist"}

ReqIds == 1..MaxReq

\* ------------------------------------------------- version: semver text
DigitChar == <<"0", "1", "2", "3", "4", "5", "6", "7", "8", "9">>

IsDigit(c) == \E d \in 1..10 : DigitChar[d] = c

DigitVal(c) == (CHOOSE d \in 1..10 : DigitChar[d] = c) - 1

\* Display of an unsigned integer: decimal, no padding.
RECURSIVE Dec(_)
Dec(n) == IF n < 10 THEN <<DigitChar[n + 1]>>
          ELSE Dec(n \div 10) \o <<DigitChar[(n % 10) + 1]>>

RECURSIVE NumVal(_)
NumVal(ds) == IF ds = <<>> THEN 0
              ELSE NumVal(SubSeq(ds, 1, Len(ds) - 1)) * 10 + DigitVal(ds[Len(ds)])

\* semver's numeric identifier: digits, not empty, no leading zero.
IsNumericIdentifier(ds) ==
    /\ Len(ds) > 0
    /\ \A i \in 1..Len(ds) : IsDigit(ds[i])
    /\ Len(ds) > 1 => ds[1] # "0"

DotPositions(s) == {i \in 1..Len(s) : s[i] = "."}

\* The build's parse of the configured version text into a semver Version
\* (MAJOR.MINOR.PATCH); a text that does not parse fails the build.
ParseAccepts(s) ==
    /\ Cardinality(DotPositions(s)) = 2
    /\ LET d1 == CHOOSE i \in DotPositions(s) : \A j \in DotPositions(s) : i <= j
           d2 == CHOOSE i \in DotPositions(s) : \A j \in DotPositions(s) : j <= i
       IN  /\ IsNumericIdentifier(SubSeq(s, 1, d1 - 1))
           /\ IsNumericIdentifier(SubSeq(s, d1 + 1, d2 - 1))
           /\ IsNumericIdentifier(SubSeq(s, d2 + 1, Len(s)))

ParseVersion(s) ==
    LET d1 == CHOOSE i \in DotPositions(s) : \A j \in DotPositions(s) : i <= j
        d2 == CHOOSE i \in DotPositions(s) : \A j \in DotPositions(s) : j <= i
    IN  [major |-> NumVal(SubSeq(s, 1, d1 - 1)),
         minor |-> NumVal(SubSeq(s, d1 + 1, d2 - 1)),
         patch |-> NumVal(SubSeq(s, d2 + 1, Len(s)))]

\* Mutant: the version is decorated on the way out.
to_string_prefixed(v) ==
    <<"v">> \o Dec(v.major) \o <<".">> \o Dec(v.minor) \o <<".">> \o Dec(v.patch)

\* Version::to_string(): "{major}.{minor}.{patch}".
to_string(v) == Dec(v.major) \o <<".">> \o Dec(v.minor) \o <<".">> \o Dec(v.patch)

\* Version texts a build accepts, within the bounds.
VersionTexts ==
    {s \in UNION {[1..n -> VersionChars] : n \in 0..MaxVerLen} : ParseAccepts(s)}

\* generate_context!(): the context the build embeds for this configuration.
GenerateContext(text) == [package_info |-> [version |-> ParseVersion(text)]]

\* ------------------------------------------------------------ the command
\* Mutant: the call leaves the application metadata changed.
app_version_bump(a) ==
    [ret |-> to_string(a.package_info.version),
     app |-> [package_info |-> [version |->
                [a.package_info.version EXCEPT !.patch = @ + 1]]]]

\* #[tauri::command] fn app_version(app) -> String: the value returned and
\* the host context as the call leaves it.
app_version(a) == [ret |-> to_string(a.package_info.version), app |-> a]

\* ----------------------------------------------------------- the registry
NotFound == "NotFound"
NoHandler == "NoHandler"
Marker == "Basalt desktop initialized"

\* Mutant: the arm is named otherwise than the function it runs.
GenerateHandlerMisnamed(fns) ==
    [i \in 1..Len(fns) |-> [name |-> "get_version", handler |-> fns[i]]]

\* generate_handler![...]: one match arm per listed function, the command
\* name being the function's identifier.
GenerateHandler(fns) == [i \in 1..Len(fns) |-> [name |-> fns[i], handler |-> fns[i]]]

\* Mutant: an unmatched command falls through to the first arm.
ResolveDefault(arms, cmd) ==
    IF \E i \in 1..Len(arms) : arms[i].name = cmd
    THEN arms[CHOOSE i \in 1..Len(arms) : arms[i].name = cmd].handler
    ELSE IF Len(arms) > 0 THEN arms[1].handler ELSE NotFound

\* The generated match: the first arm whose name equals the command, else
\* the fall-through arm.
Resolve(arms, cmd) ==
    IF \E i \in 1..Len(arms) : arms[i].name = cmd
    THEN arms[CHOOSE i \in 1..Len(arms) :
                /\ arms[i].name = cmd
                /\ \A j \in 1..Len(arms) : arms[j].name = cmd => i <= j].handler
    ELSE NotFound

\* Running a resolved handler against the host context.
Call(h, a) == CASE h = "app_version" -> app_version(a)

Ok(v) == [ok |-> TRUE, value |-> v]
Err(e) == [ok |-> FALSE, error |-> e]
NoOut == [ok |-> FALSE, error |-> "none"]

\* ------------------------------------------------------------------ state
VARIABLES
    cfgVersion,      \* version text of the build configuration
    debug,           \* cfg(debug_assertions)
    pc,              \* run(): "start", "built", "running", "exited", "panicked"
    invoke_handler,  \* the builder's invoke handler: the generated match arms
    app,             \* host context (AppHandle): package_info
    stdout,          \* lines written to standard output
    nextReq,         \* id the next invocation request gets
    inbox,           \* requests issued by the UI and not yet received
    reqName,         \* request id -> command name
    afterFailure,    \* request id -> issued after an error response was delivered
    disp,            \* request id -> dispatcher state for that invocation
    cur,             \* request id -> handler being executed
    out,             \* request id -> response being delivered
    executed,        \* request id -> number of handler executions
    responses        \* request id -> responses delivered to its caller

vars == <<cfgVersion, debug, pc, invoke_handler, app, stdout, nextReq, inbox,
          reqName, afterFailure, disp, cur, out, executed, responses>>

build == <<cfgVersion, debug>>
reqs == <<nextReq, inbox, reqName, afterFailure>>
bridge == <<disp, cur, out, executed, responses>>

Init ==
    /\ cfgVersion \in VersionTexts
    /\ debug \in BOOLEAN
    /\ pc = "start"
    /\ invoke_handler = <<>>
    /\ app = GenerateContext(cfgVersion)
    /\ stdout = <<>>
    /\ nextReq = 1
    /\ inbox = {}
    /\ reqName = [r \in ReqIds |-> ""]
    /\ afterFailure = [r \in ReqIds |-> FALSE]
    /\ disp = [r \in ReqIds |-> "Idle"]
    /\ cur = [r \in ReqIds |-> NoHandler]
    /\ out = [r \in ReqIds |-> NoOut]
    /\ executed = [r \in ReqIds |-> 0]
    /\ responses = [r \in ReqIds |-> <<>>]

\* ----------------------------------------------------------------- run()
\* Builder::default().invoke_handler(generate_handler![app_version])
Build ==
    /\ pc = "start"
    /\ pc' = "built"
    /\ invoke_handler' = GenerateHandler(<<"app_version">>)
    /\ UNCHANGED <<build, app, stdout, reqs, bridge>>

\* Mutant: the line is printed whatever the build configuration.
SetupAlwaysPrints ==
    /\ pc = "built"
    /\ pc' = "running"
    /\ stdout' = Append(stdout, Marker)
    /\ UNCHANGED <<build, invoke_handler, app, reqs, bridge>>

\* .setup(|_app| { #[cfg(debug_assertions)] println!(...); Ok(()) }), after
\* which the event loop runs.
Setup ==
    /\ pc = "built"
    /\ pc' = "running"
    /\ stdout' = IF debug THEN Append(stdout, Marker) ELSE stdout
    /\ UNCHANGED <<build, invoke_handler, app, reqs, bridge>>

\* .run(...) returns an error (the UI surface cannot be created) and
\* .expect(...) panics.
RunFails ==
    /\ pc = "built"
    /\ pc' = "panicked"
    /\ UNCHANGED <<build, invoke_handler, app, stdout, reqs, bridge>>

\* The event loop ends: the user closes the application.
Exit ==
    /\ pc = "running"
    /\ pc' = "exited"
    /\ UNCHANGED <<build, invoke_handler, app, stdout, reqs, bridge>>

\* ------------------------------------------------------------ the bridge
\* The UI issues an invocation request (empty arguments).
Invoke(n) ==
    /\ pc = "running"
    /\ nextReq <= MaxReq
    /\ inbox' = inbox \cup {nextReq}
    /\ reqName' = [reqName EXCEPT ![nextReq] = n]
    /\ afterFailure' = [afterFailure EXCEPT ![nextReq] =
            \E q \in ReqIds : \E i \in 1..Len(responses[q]) : ~responses[q][i].ok]
    /\ nextReq' = nextReq + 1
    /\ UNCHANGED <<build, pc, invoke_handler, app, stdout, bridge>>

\* Mutant: the invoke handler is consumed by the first request it serves.
ReceiveOnce(r) ==
    /\ pc = "running"
    /\ r \in inbox
    /\ disp[r] = "Idle"
    /\ inbox' = inbox \ {r}
    /\ invoke_handler' = <<>>
    /\ LET h == Resolve(invoke_handler, reqName[r])
       IN  IF h # NotFound
           THEN /\ disp' = [disp EXCEPT ![r] = "Executing"]
                /\ cur' = [cur EXCEPT ![r] = h]
                /\ out' = out
           ELSE /\ disp' = [disp EXCEPT ![r] = "Responding"]
                /\ cur' = cur
                /\ out' = [out EXCEPT ![r] = Err("UnknownCommand")]
    /\ UNCHANGED <<build, pc, app, stdout, nextReq, reqName,
                   afterFailure, executed, responses>>

\* The invoke handler receives the request and matches its command name.
Receive(r) ==
    /\ pc = "running"
    /\ r \in inbox
    /\ disp[r] = "Idle"
    /\ inbox' = inbox \ {r}
    /\ LET h == Resolve(invoke_handler, reqName[r])
       IN  IF h # NotFound
           THEN /\ disp' = [disp EXCEPT ![r] = "Executing"]
                /\ cur' = [cur EXCEPT ![r] = h]
                /\ out' = out
           ELSE /\ disp' = [disp EXCEPT ![r] = "Responding"]
                /\ cur' = cur
                /\ out' = [out EXCEPT ![r] = Err("UnknownCommand")]
    /\ UNCHANGED <<build, pc, invoke_handler, app, stdout, nextReq, reqName,
                   afterFailure, executed, responses>>

\* Mutant: the handler's return is handed over without the Responding state.
HandlerReturnToIdle(r) ==
    /\ pc = "running"
    /\ disp[r] = "Executing"
    /\ LET res == Call(cur[r], app)
       IN  /\ responses' = [responses EXCEPT ![r] = Append(@, Ok(res.ret))]
           /\ app' = res.app
    /\ executed' = [executed EXCEPT ![r] = @ + 1]
    /\ cur' = [cur EXCEPT ![r] = NoHandler]
    /\ disp' = [disp EXCEPT ![r] = "Idle"]
    /\ UNCHANGED <<build, pc, invoke_handler, stdout, reqs, out>>

\* The handler runs to completion and its return value becomes the response.
HandlerReturn(r) ==
    /\ pc = "running"
    /\ disp[r] = "Executing"
    /\ LET res == Call(cur[r], app)
       IN  /\ out' = [out EXCEPT ![r] = Ok(res.ret)]
           /\ app' = res.app
    /\ executed' = [executed EXCEPT ![r] = @ + 1]
    /\ cur' = [cur EXCEPT ![r] = NoHandler]
    /\ disp' = [disp EXCEPT ![r] = "Responding"]
    /\ UNCHANGED <<build, pc, invoke_handler, stdout, reqs, responses>>

\* Mutant: an error response brings the host down.
DeliverOrCrash(r) ==
    /\ pc = "running"
    /\ disp[r] = "Responding"
    /\ responses' = [responses EXCEPT ![r] = Append(@, out[r])]
    /\ out' = [out EXCEPT ![r] = NoOut]
    /\ disp' = [disp EXCEPT ![r] = "Idle"]
    /\ pc' = IF out[r].ok THEN pc ELSE "panicked"
    /\ UNCHANGED <<build, invoke_handler, app, stdout, reqs, cur, executed>>

\* Mutant: the response is handed to the caller of another request.
DeliverToOther(r) ==
    /\ pc = "running"
    /\ disp[r] = "Responding"
    /\ LET q == IF r = MaxReq THEN 1 ELSE r + 1
       IN  responses' = [responses EXCEPT ![q] = Append(@, out[r])]
    /\ out' = [out EXCEPT ![r] = NoOut]
    /\ disp' = [disp EXCEPT ![r] = "Idle"]
    /\ UNCHANGED <<build, pc, invoke_handler, app, stdout, reqs, cur, executed>>

\* The response crosses the boundary to the caller that issued the request.
Deliver(r) ==
    /\ pc = "running"
    /\ disp[r] = "Responding"
    /\ responses' = [responses EXCEPT ![r] = Append(@, out[r])]
    /\ out' = [out EXCEPT ![r] = NoOut]
    /\ disp' = [disp EXCEPT ![r] = "Idle"]
    /\ UNCHANGED <<build, pc, invoke_handler, app, stdout, reqs, cur, executed>>

Next ==
    \/ Build
    \/ Setup
    \/ RunFails
    \/ Exit
    \/ \E n \in RequestNames : Invoke(n)
    \/ \E r \in ReqIds : Receive(r)
    \/ \E r \in ReqIds : HandlerReturn(r)
    \/ \E r \in ReqIds : Deliver(r)

Spec == Init /\ [][Next]_vars

\* The host runtime runs every received invocation to its response while the
\* process is running; nothing obliges the user to keep the application open.
FairSpec ==
    /\ Spec
    /\ \A r \in ReqIds : WF_vars(Receive(r))
    /\ \A r \in ReqIds : WF_vars(HandlerReturn(r))
    /\ \A r \in ReqIds : WF_vars(Deliver(r))

\* ------------------------------------------------------- shared notions
\* Command names the invoke handler has an arm for.
Registered == {invoke_handler[i].name : i \in 1..Len(invoke_handler)}

Issued(r) == r < nextReq

V1001 == <<"1", "0", ".", "0", ".", "1">>

\* -------------------------------------------------------------------- C1
\* C1: every response to an "app_version" request, delivered or being
\* delivered, is a success whose payload is the build-configured version
\* text itself, which is also what a direct call of app_version returns.
C1_DispatchReturnsVersion ==
    \A r \in ReqIds :
        reqName[r] = "app_version" =>
            /\ disp[r] = "Responding" =>
                  /\ out[r] = Ok(cfgVersion)
                  /\ out[r] = Ok(app_version(app).ret)
            /\ \A i \in 1..Len(responses[r]) :
                  /\ responses[r][i] = Ok(cfgVersion)
                  /\ responses[r][i] = Ok(app_version(app).ret)

\* Build metadata "10.0.1": the request was answered {ok: true, value: "10.0.1"}.
C1_Witness ==
    \E r \in ReqIds :
        /\ cfgVersion = V1001
        /\ reqName[r] = "app_version"
        /\ responses[r] = <<[ok |-> TRUE, value |-> V1001]>>

\* -------------------------------------------------------------------- C2
\* C2: a request whose command name has no arm in the invoke handler never
\* runs a handler and never enters Executing; once received it is either
\* being answered with UnknownCommand or has been answered with it (it is
\* not dropped), and every response its caller gets is that error.
C2_UnknownCommandReported ==
    \A r \in ReqIds :
        (Issued(r) /\ reqName[r] \notin Registered) =>
            /\ Resolve(invoke_handler, reqName[r]) = NotFound
            /\ executed[r] = 0
            /\ disp[r] # "Executing"
            /\ disp[r] = "Responding" => out[r] = Err("UnknownCommand")
            /\ \A i \in 1..Len(responses[r]) : responses[r][i] = Err("UnknownCommand")
            /\ r \notin inbox => (disp[r] = "Responding" \/ Len(responses[r]) > 0)

\* {name: "does_not_exist"} was answered {ok: false, error: "UnknownCommand"}.
C2_Witness ==
    \E r \in ReqIds :
        /\ reqName[r] = "does_not_exist"
        /\ responses[r] = <<[ok |-> FALSE, error |-> "UnknownCommand"]>>
        /\ executed[r] = 0

C5_RegistryFixed ==
    /\ [](nextReq > 1 =>
            /\ invoke_handler = GenerateHandler(<<"app_version">>)
            /\ Registered = {"app_version"})
    /\ [][pc # "start" => invoke_handler' = invoke_handler]_vars

\* Every request has been served and the registry is still {app_version}.
C5_Witness ==
    /\ \A r \in ReqIds : Len(responses[r]) = 1
    /\ Registered = {"app_version"}

\* -------------------------------------------------------------------- C6
\* C6: no step changes the application metadata; a step in which a handler
\* runs changes nothing of the host but the bridge's own bookkeeping for
\* that request; and all success payloads ever delivered are one and the
\* same string, the build-configured version.
C6_Host == <<cfgVersion, debug, pc, invoke_handler, app, stdout, reqs>>

C6_GetVersionPure ==
    /\ [][/\ app' = app
          /\ (\E r \in ReqIds : executed'[r] # executed[r]) => C6_Host' = C6_Host]_vars
    /\ [](\A r, q \in ReqIds :
            \A i \in 1..Len(responses[r]) : \A j \in 1..Len(responses[q]) :
                (responses[r][i].ok /\ responses[q][j].ok) =>
                    /\ responses[r][i].value = responses[q][j].value
                    /\ responses[r][i].value = to_string(ParseVersion(cfgVersion)))

\* Two calls have run and both callers hold the same string.
C6_Witness ==
    /\ executed[1] = 1
    /\ executed[2] = 1
    /\ Len(responses[1]) = 1
    /\ responses[1] = responses[2]
    /\ responses[1][1].ok

\* -------------------------------------------------------------------- C7
\* C7: before setup nothing is printed; once startup has succeeded the
\* output is, for the rest of the process's life, the one marker line in a
\* development build and empty in a production build.
C7_StartupMarker ==
    /\ pc \in {"start", "built", "panicked"} => stdout = <<>>
    /\ pc \in {"running", "exited"} =>
          stdout = IF debug THEN <<Marker>> ELSE <<>>

\* A development build that has served invocations and exited: one line.
C7_Witness ==
    /\ debug
    /\ pc = "exited"
    /\ \A r \in ReqIds : Len(responses[r]) = 1
    /\ stdout = <<"Basalt desktop initialized">>

\* -------------------------------------------------------------------- C8
\* C8: the dispatcher state of an invocation changes only Idle->Executing
\* (name registered), Idle->Responding (name not registered, UnknownCommand),
\* Executing->Responding, and Responding->Idle (with the response handed
\* over); Executing is never held for an unregistered name.
C8_Step(r) ==
    \/ disp'[r] = disp[r]
    \/ /\ disp[r] = "Idle" /\ disp'[r] = "Executing"
       /\ r \in inbox
       /\ reqName[r] \in Registered
    \/ /\ disp[r] = "Idle" /\ disp'[r] = "Responding"
       /\ r \in inbox
       /\ reqName[r] \notin Registered
       /\ out'[r] = Err("UnknownCommand")
    \/ /\ disp[r] = "Executing" /\ disp'[r] = "Responding"
    \/ /\ disp[r] = "Responding" /\ disp'[r] = "Idle"
       /\ Len(responses'[r]) = Len(responses[r]) + 1

C8_DispatcherTransitions ==
    /\ [][\A r \in ReqIds : C8_Step(r)]_vars
    /\ [](\A r \in ReqIds : disp[r] = "Executing" => reqName[r] \in Registered)

\* One invocation is executing while another, for an unknown name, is
\* responding.
C8_Witness ==
    \E r, q \in ReqIds :
        /\ disp[r] = "Executing"
        /\ disp[q] = "Responding"
        /\ reqName[q] \notin Registered

\* -------------------------------------------------------------------- C9
\* C9: the process ends in a panic only from bootstrap, before any request
\* was issued; a step that fails an invocation (an unknown name received, an
\* error response delivered) leaves the process running, and delivering the
\* error returns that invocation's dispatcher to Idle with the error in its
\* own caller's hands; an app_version request issued after a failure is
\* still answered with the version.
C9_FailureStep(r) ==
    /\ (disp[r] = "Idle" /\ disp'[r] = "Responding") => pc' = "running"
    /\ (Len(responses'[r]) > Len(responses[r])
            /\ ~responses'[r][Len(responses'[r])].ok) =>
          /\ pc' = "running"
          /\ disp'[r] = "Idle"
          /\ responses'[r] = Append(responses[r], Err("UnknownCommand"))
          /\ \A q \in ReqIds \ {r} : responses'[q] = responses[q]

C9_FailuresAreLocal ==
    /\ [][(pc' = "panicked" /\ pc # "panicked") => (pc = "built" /\ nextReq = 1)]_vars
    /\ [][\A r \in ReqIds : C9_FailureStep(r)]_vars
    /\ [](\A r \in ReqIds :
            (afterFailure[r] /\ reqName[r] = "app_version") =>
                \A i \in 1..Len(responses[r]) : responses[r][i] = Ok(cfgVersion))

\* An app_version request issued after an error response was delivered has
\* been answered with the version.
C9_Witness ==
    \E r \in ReqIds :
        /\ afterFailure[r]
        /\ reqName[r] = "app_version"
        /\ responses[r] = <<Ok(cfgVersion)>>
        /\ pc = "running"

\* ------------------------------------------------------------------- C10
\* The response a command name determines.
Expected(n) == IF n = "app_version" THEN Ok(cfgVersion) ELSE Err("UnknownCommand")

C10_Safety ==
    \A r \in ReqIds :
        /\ Len(responses[r]) <= 1
        /\ Len(responses[r]) > 0 => Issued(r)
        /\ \A i \in 1..Len(responses[r]) : responses[r][i] = Expected(reqName[r])

\* C10 as stated: every issued request eventually has exactly one response,
\* the one its own command name determines.
C10_EveryRequestAnswered ==
    /\ []C10_Safety
    /\ \A r \in ReqIds : Issued(r) ~> (Len(responses[r]) = 1)

\* C10 amended: a request never has more than one response and any it has
\* is the one its own command name determines, whatever else is in flight;
\* every issued request eventually has its response unless the application
\* exits first.
C10_AnsweredUnlessExited ==
    /\ []C10_Safety
    /\ \A r \in ReqIds : Issued(r) ~> (Len(responses[r]) = 1 \/ pc = "exited")

\* A later request has its response while an earlier one, for another
\* command, is still in flight.
C10_Witness ==
    /\ reqName[1] = "does_not_exist"
    /\ disp[1] = "Responding"
    /\ reqName[2] = "app_version"
    /\ responses[2] = <<Ok(cfgVersion)>>
====
